---- MODULE Spec2Model ----
(***************************************************************************)
(* Processing-session controller of app/web/static/connected_interface.js  *)
(* (class App).  One state machine: the two fields of App, the three DOM   *)
(* properties the handlers write, the suspended continuations of the two   *)
(* async handlers (one per outstanding fetch), the streaming channel, and  *)
(* the collaborator calls made by the handler step that ran last.          *)
(***************************************************************************)
EXTENDS Naturals, Sequences, FiniteSets, Bags

VARIABLES
    sessionId,      \* this.sessionId (NULL or the id of a create-session response)
    isProcessing,   \* this.isProcessing
    sendDisabled,   \* #send-btn .disabled
    stopDisabled,   \* #stop-btn .disabled
    statusText,     \* #status-indicator .textContent
    creates,        \* suspended handleSendMessage continuations (one per request)
    stops,          \* bag of session ids of suspended stopProcessing continuations
    submitted,      \* number of create-session requests issued so far
    wsChannel,      \* session id the streaming channel is open for, or NULL
    pending,        \* bag of background continuations: refresh timers and
                    \* suspended loadWorkspaceFiles / handleFileClick calls
    lastOp,         \* the handler step that ran last, with its inputs
    calls           \* collaborator calls made by that step, in order

vars == <<sessionId, isProcessing, sendDisabled, stopDisabled, statusText,
          creates, stops, submitted, wsChannel, pending, lastOp, calls>>

\* what a handler can write: the controller's fields and the DOM properties
ctl == <<sessionId, isProcessing, sendDisabled, stopDisabled, statusText>>

----------------------------------------------------------------------------
\* Bounds of the model
MaxSubmits == 3     \* create-session requests issued in one behaviour
MaxOutstanding == 1 \* stop requests, refresh timers and file fetches
                    \* outstanding at the same time
MaxLogs == 2        \* length of system_logs in a dispatched event
MaxTimers == 2      \* refreshes outstanding while events are dispatched

NULL == 0
SessionIds == 1..MaxSubmits          \* the n-th request is answered with id n
Messages == {"hello"}
HttpErrors == {500}

\* ThinkingStep: {message, type, details, timestamp}
Step(message, type, timestamp) ==
    [message |-> message, type |-> type, details |-> "null", timestamp |-> timestamp]

\* values of event.thinking_steps and event.system_logs (absent reads as empty)
ThinkingSteps == {<<>>, <<Step("t1", "thinking", "t0")>>}
SystemLogs == {<<>>, <<"a", "b">>}
Paths == {"a b.txt"}

\* InboundEvent: "none" is a field that is absent (undefined, falsy)
Statuses == {"none", "running", "completed", "error", "stopped"}
Results == {"none", "", "done"}
AllEvents(steps, logs, outputs, chats) ==
    [status : Statuses, result : Results,
     thinking_steps : steps, system_logs : logs,
     terminal_output : outputs, chat_logs : chats]

\* the events of the streaming channel: every status and result, with or
\* without a payload
Events == {e \in AllEvents(ThinkingSteps, SystemLogs, {<<>>}, {<<>>}) :
              (e.thinking_steps = <<>>) <=> (e.system_logs = <<>>)}

\* sequences over S of length at most n
RECURSIVE SeqsUpTo(_, _)
SeqsUpTo(S, n) ==
    IF n = 0 THEN {<<>>}
    ELSE LET shorter == SeqsUpTo(S, n - 1)
         IN shorter \cup {Append(q, x) : q \in {t \in shorter : Len(t) = n - 1}, x \in S}

\* the events handed to onEvent directly: every status, every sequence of
\* log lines, with or without thinking steps, and with the remaining fields
\* (result, terminal_output, chat_logs) all absent or all present
LogLines == {"a", "b"}
DispatchSteps == {<<>>, <<Step("t2", "thinking", "t0"), Step("t1", "tool", "t0")>>}
DispatchEvents ==
    {e \in AllEvents(DispatchSteps, SeqsUpTo(LogLines, MaxLogs),
                     {<<>>, <<"out">>}, {<<>>, <<"chat">>}) :
        /\ e.result # ""
        /\ (e.result = "none") <=> (e.terminal_output = <<>>)
        /\ (e.result = "none") <=> (e.chat_logs = <<>>)}

\* outcome of a fetch(): a response (ok or not) or a rejected promise
FetchFailures == {[kind |-> "status", status |-> s] : s \in HttpErrors}
                    \cup {[kind |-> "fault", status |-> 0]}

----------------------------------------------------------------------------
\* i18n t(key, params): the key with its parameters
ApiError(status) == <<"api_error", status>>
ErrorOccurred(message) == <<"error_occurred", message>>

\* error.message of the Error caught after a failed fetch
ErrorMessage(f) == IF f.kind = "status" THEN ApiError(f.status) ELSE <<"fault">>

\* JavaScript truthiness of a string-or-undefined field
Truthy(v) == v # "none" /\ v # ""

Call(name, arg) == [call |-> name, arg |-> arg]
\* the event without any field: what a step that handles no event records
NoEvent == [status |-> "none", result |-> "none",
            thinking_steps |-> <<>>, system_logs |-> <<>>,
            terminal_output |-> <<>>, chat_logs |-> <<>>]

\* again: the step handles the event the step before it handled
Op(name, sid, ev) == [op |-> name, sid |-> sid, ev |-> ev, again |-> FALSE]

\* background continuations
Timer == [kind |-> "timer", path |-> ""]           \* setTimeout(..., 1000) not yet fired
FilesFetch == [kind |-> "files", path |-> ""]      \* loadWorkspaceFiles awaiting /api/files
FileFetch(path) == [kind |-> "file", path |-> path] \* handleFileClick awaiting /api/files/<path>

----------------------------------------------------------------------------
\* stop requests and background continuations not yet resolved
Outstanding == BagCardinality(stops) + BagCardinality(pending)

Init ==
    /\ sessionId = NULL
    /\ isProcessing = FALSE
    /\ sendDisabled \in BOOLEAN
    /\ stopDisabled \in BOOLEAN
    /\ statusText = ""
    /\ creates = {}
    /\ stops = EmptyBag
    /\ submitted = 0
    /\ wsChannel = NULL
    /\ pending = SetToBag({FilesFetch})
    /\ lastOp = Op("init", NULL, NoEvent)
    /\ calls = <<>>

----------------------------------------------------------------------------
\* the guard without its test: every call goes on to issue a request
Busy_Never(processing) == FALSE

\* handleSendMessage, entry: `if (this.isProcessing) return;`
Busy(processing) == processing

\* handleSendMessage up to the first await: the guard, the four writes on
\* entry and the fetch('/api/chat') that suspends the handler.
HandleSendMessage(m) ==
    /\ lastOp' = Op("handleSendMessage", NULL, NoEvent)
    /\ calls' = <<>>
    /\ IF Busy(isProcessing)
       THEN UNCHANGED <<ctl, creates, stops, submitted, wsChannel, pending>>
       ELSE /\ submitted < MaxSubmits
            /\ isProcessing' = TRUE
            /\ sendDisabled' = TRUE
            /\ stopDisabled' = FALSE
            /\ statusText' = "processing_request"
            /\ submitted' = submitted + 1
            /\ creates' = creates \cup
                   {[n |-> submitted + 1, msg |-> m, phase |-> "fetch"]}
            /\ UNCHANGED <<sessionId, stops, wsChannel, pending>>

\* fetch('/api/chat') resolved with response.ok: the handler goes on to
\* `await response.json()` and is suspended again.
CreateFetched(r) ==
    /\ r \in creates
    /\ r.phase = "fetch"
    /\ creates' = (creates \ {r}) \cup {[r EXCEPT !.phase = "json"]}
    /\ lastOp' = Op("createFetched", r.n, NoEvent)
    /\ calls' = <<>>
    /\ UNCHANGED <<ctl, stops, submitted, wsChannel, pending>>

\* the response's id is dropped and the stored id kept
StoredSessionId_Kept(old, fromResponse) == old

\* `this.sessionId = data.session_id`
StoredSessionId(old, fromResponse) == fromResponse

\* the channel is opened before the user message is added
SuccessCalls_ConnectFirst(msg, sid) ==
    <<Call("connect", sid),
      Call("addUserMessage", msg),
      Call("clearThinking", NULL)>>

\* addUserMessage(message); connect(this.sessionId); clearThinking()
SuccessCalls(msg, sid) ==
    <<Call("addUserMessage", msg),
      Call("connect", sid),
      Call("clearThinking", NULL)>>

\* response.json() resolved: the rest of the try block, run without suspension.
CreateSucceed(r) ==
    /\ r \in creates
    /\ r.phase = "json"
    /\ lastOp' = Op("createOk", r.n, NoEvent)
    /\ creates' = creates \ {r}
    /\ sessionId' = StoredSessionId(sessionId, r.n)
    /\ calls' = SuccessCalls(r.msg, sessionId')
    /\ wsChannel' = sessionId'
    /\ UNCHANGED <<isProcessing, sendDisabled, stopDisabled, statusText,
                   stops, submitted, pending>>

\* a catch block that forgets `this.isProcessing = false`
AfterSendError_Kept(processing) == processing

\* the catch block of handleSendMessage: value of isProcessing it leaves
AfterSendError(processing) == FALSE

\* fetch rejected, response not ok, or response.json() rejected: the catch block.
CreateFail(r, f) ==
    /\ r \in creates
    /\ f \in FetchFailures
    /\ r.phase = "json" => f.kind = "fault"
    /\ lastOp' = Op("createFail", r.n, NoEvent)
    /\ creates' = creates \ {r}
    /\ calls' = <<Call("addSystemMessage", ErrorOccurred(ErrorMessage(f)))>>
    /\ isProcessing' = AfterSendError(isProcessing)
    /\ sendDisabled' = FALSE
    /\ stopDisabled' = TRUE
    /\ statusText' = ""
    /\ UNCHANGED <<sessionId, stops, submitted, wsChannel, pending>>

----------------------------------------------------------------------------
\* the stop request names the session before the current one
StopTarget_Previous(sid) == IF sid > 1 THEN sid - 1 ELSE sid

\* the session id put in the URL of the stop request: `/api/chat/${this.sessionId}/stop`
StopTarget(sid) == sid

\* stopProcessing up to its await: the guard and the fetch that suspends it.
StopProcessing ==
    /\ lastOp' = Op("stopProcessing", sessionId, NoEvent)
    /\ calls' = <<>>
    /\ IF sessionId = NULL
       THEN UNCHANGED stops
       ELSE /\ Outstanding < MaxOutstanding
            /\ stops' = stops (+) SetToBag({StopTarget(sessionId)})
    /\ UNCHANGED <<ctl, creates, submitted, wsChannel, pending>>

\* cancel(): stopProcessing() called on the controller
Cancel == StopProcessing

\* click on #stop-btn (a disabled button dispatches no click)
StopBtnClick ==
    /\ ~stopDisabled
    /\ IF sessionId # NULL /\ isProcessing
       THEN StopProcessing
       ELSE /\ lastOp' = Op("stopBtnClick", NULL, NoEvent)
            /\ calls' = <<>>
            /\ UNCHANGED <<ctl, creates, stops, submitted, wsChannel, pending>>

\* the status indicator is cleared instead of showing the 'stopped' label
StopOkStatus_Cleared(old) == ""

\* `statusIndicator.textContent = t('processing_stopped')`
StopOkStatus(old) == "processing_stopped"

\* the success path forgets `this.isProcessing = false`
AfterStopOk_Kept(processing) == processing

\* the success path of stopProcessing: value of isProcessing it leaves
AfterStopOk(processing) == FALSE

\* the stop request for sid resolved with response.ok
StopSucceed(sid) ==
    /\ BagIn(sid, stops)
    /\ stops' = stops (-) SetToBag({sid})
    /\ calls' = <<Call("addSystemMessage", "processing_stopped")>>
    /\ statusText' = StopOkStatus(statusText)
    /\ sendDisabled' = FALSE
    /\ stopDisabled' = TRUE
    /\ isProcessing' = AfterStopOk(isProcessing)
    /\ lastOp' = Op("stopOk", sid, NoEvent)
    /\ UNCHANGED <<sessionId, creates, submitted, wsChannel, pending>>

\* a catch block that gives up the session: `this.isProcessing = false`
AfterStopError_Idle(processing) == FALSE

\* the catch block of stopProcessing: value of isProcessing it leaves
AfterStopError(processing) == processing

\* the stop request for sid rejected or answered with a non-ok status
StopFail(sid, f) ==
    /\ BagIn(sid, stops)
    /\ f \in FetchFailures
    /\ stops' = stops (-) SetToBag({sid})
    /\ calls' = <<Call("addSystemMessage", ErrorOccurred(ErrorMessage(f)))>>
    /\ isProcessing' = AfterStopError(isProcessing)
    /\ lastOp' = Op("stopFail", sid, NoEvent)
    /\ UNCHANGED <<sessionId, sendDisabled, stopDisabled, statusText,
                   creates, submitted, wsChannel, pending>>

----------------------------------------------------------------------------
\* every status present counts as terminal
Terminal_AnyStatus(status) == status # "none"

\* the 'stopped' disjunct is missing
Terminal_NoStopped(status) == status \in {"completed", "error"}

\* `data.status === 'completed' || data.status === 'error' || data.status === 'stopped'`
Terminal(status) == status \in {"completed", "error", "stopped"}

\* the result is shown for a completed session only
ShowsResult_CompletedOnly(e) == e.status = "completed" /\ Truthy(e.result)

\* the condition under which handleWebSocketMessage calls addAIMessage
ShowsResult(e) == Truthy(e.status) /\ Terminal(e.status) /\ Truthy(e.result)

\* the mapped steps in reverse order
LogSteps_Reversed(logs) ==
    [i \in 1..Len(logs) |-> Step(logs[Len(logs) + 1 - i], "system_log", "now")]

\* system_logs.map(log => ({message, type, details, timestamp}))
LogSteps(logs) ==
    [i \in 1..Len(logs) |-> Step(logs[i], "system_log", "now")]

\* `if (data.result) this.chatManager.addAIMessage(data.result)`
ResultCalls(e) ==
    IF ShowsResult(e) THEN <<Call("addAIMessage", e.result)>> ELSE <<>>

\* steps already shown for the event before are not shown again
StepsCalls_Dedup(e) ==
    IF Len(e.thinking_steps) > 0 /\ e.thinking_steps # lastOp.ev.thinking_steps
    THEN <<Call("addThinkingSteps", e.thinking_steps)>> ELSE <<>>

\* `if (data.thinking_steps && data.thinking_steps.length > 0) addThinkingSteps(...)`
StepsCalls(e) ==
    IF Len(e.thinking_steps) > 0
    THEN <<Call("addThinkingSteps", e.thinking_steps)>> ELSE <<>>

\* `if (data.system_logs && data.system_logs.length > 0) addThinkingSteps(logSteps)`
LogCalls(e) ==
    IF Len(e.system_logs) > 0
    THEN <<Call("addThinkingSteps", LogSteps(e.system_logs))>> ELSE <<>>

\* a refresh is scheduled for every terminal status
Refreshes_AnyTerminal(e) == Terminal(e.status)

\* `if (data.status === 'completed') setTimeout(() => this.loadWorkspaceFiles(), 1000)`
Refreshes(e) == e.status = "completed"

RefreshCalls(e) ==
    IF Refreshes(e) THEN <<Call("setTimeout", "loadWorkspaceFiles")>> ELSE <<>>

\* the system logs are handled before the thinking steps
EventCalls_LogsFirst(e) ==
    ResultCalls(e) \o LogCalls(e) \o StepsCalls(e) \o RefreshCalls(e)

\* the collaborator calls of handleWebSocketMessage(e), in program order
EventCalls(e) ==
    ResultCalls(e) \o StepsCalls(e) \o LogCalls(e) \o RefreshCalls(e)

\* handleWebSocketMessage(e); terminal_output and chat_logs are only logged
\* to the console.
HandleWebSocketMessage(e) ==
    /\ IF Truthy(e.status) /\ Terminal(e.status)
       THEN /\ isProcessing' = FALSE
            /\ sendDisabled' = FALSE
            /\ stopDisabled' = TRUE
            /\ statusText' = ""
       ELSE UNCHANGED <<isProcessing, sendDisabled, stopDisabled, statusText>>
    /\ calls' = EventCalls(e)
    /\ pending' = IF Refreshes(e) THEN pending (+) SetToBag({Timer}) ELSE pending
    /\ UNCHANGED <<sessionId, creates, stops, submitted>>

\* the streaming channel delivers one event; a terminal status ends the stream
WsDeliver(e) ==
    /\ wsChannel # NULL
    /\ Refreshes(e) => Outstanding < MaxOutstanding
    /\ lastOp' = Op("handleWebSocketMessage", NULL, e)
    /\ HandleWebSocketMessage(e)
    /\ wsChannel' = IF Terminal(e.status) THEN NULL ELSE wsChannel

\* connection-level close of the streaming channel
WsClose ==
    /\ wsChannel # NULL
    /\ wsChannel' = NULL
    /\ lastOp' = Op("wsClose", NULL, NoEvent)
    /\ calls' = <<>>
    /\ UNCHANGED <<ctl, creates, stops, submitted, pending>>

----------------------------------------------------------------------------
\* loadWorkspaceFiles up to its await: fetch('/api/files')
LoadWorkspaceFiles(from) ==
    /\ pending' = from (+) SetToBag({FilesFetch})
    /\ lastOp' = Op("loadWorkspaceFiles", NULL, NoEvent)
    /\ calls' = <<>>
    /\ UNCHANGED <<ctl, creates, stops, submitted, wsChannel>>

\* a refresh timer fires: `() => this.loadWorkspaceFiles()`
TimerFire ==
    /\ BagIn(Timer, pending)
    /\ LoadWorkspaceFiles(pending (-) SetToBag({Timer}))

\* click on #refresh-files
RefreshClick ==
    /\ Outstanding < MaxOutstanding
    /\ LoadWorkspaceFiles(pending)

\* /api/files answered ok and parsed: updateWorkspaces(data.workspaces)
LoadSucceed ==
    /\ BagIn(FilesFetch, pending)
    /\ pending' = pending (-) SetToBag({FilesFetch})
    /\ calls' = <<Call("updateWorkspaces", "workspaces")>>
    /\ lastOp' = Op("loadOk", NULL, NoEvent)
    /\ UNCHANGED <<ctl, creates, stops, submitted, wsChannel>>

\* the fetch is issued again from the catch block
LoadRetry_Again(from) == from (+) SetToBag({FilesFetch})

\* the catch block of loadWorkspaceFiles: the continuations it leaves
LoadRetry(from) == from

\* /api/files rejected, not ok, or not parseable: the catch block only logs
LoadFail(f) ==
    /\ BagIn(FilesFetch, pending)
    /\ f \in FetchFailures
    /\ pending' = LoadRetry(pending (-) SetToBag({FilesFetch}))
    /\ calls' = <<>>
    /\ lastOp' = Op("loadFail", NULL, NoEvent)
    /\ UNCHANGED <<ctl, creates, stops, submitted, wsChannel>>

\* handleFileClick up to its await: fetch(`/api/files/${encodeURIComponent(filePath)}`)
HandleFileClick(path) ==
    /\ Outstanding < MaxOutstanding
    /\ pending' = pending (+) SetToBag({FileFetch(path)})
    /\ lastOp' = Op("handleFileClick", NULL, NoEvent)
    /\ calls' = <<>>
    /\ UNCHANGED <<ctl, creates, stops, submitted, wsChannel>>

\* the file fetch answered ok and parsed: showFile(data.name, data.content)
FileSucceed(path) ==
    /\ BagIn(FileFetch(path), pending)
    /\ pending' = pending (-) SetToBag({FileFetch(path)})
    /\ calls' = <<Call("showFile", <<path, "content">>)>>
    /\ lastOp' = Op("fileOk", NULL, NoEvent)
    /\ UNCHANGED <<ctl, creates, stops, submitted, wsChannel>>

\* the failure is only logged
FileErrorCalls_Silent(f) == <<>>

\* the catch block of handleFileClick
FileErrorCalls(f) == <<Call("addSystemMessage", ErrorOccurred(ErrorMessage(f)))>>

\* the file fetch rejected, not ok, or not parseable
FileFail(path, f) ==
    /\ BagIn(FileFetch(path), pending)
    /\ f \in FetchFailures
    /\ pending' = pending (-) SetToBag({FileFetch(path)})
    /\ calls' = FileErrorCalls(f)
    /\ lastOp' = Op("fileFail", NULL, NoEvent)
    /\ UNCHANGED <<ctl, creates, stops, submitted, wsChannel>>

Background ==
    \/ TimerFire
    \/ RefreshClick
    \/ LoadSucceed
    \/ \E f \in FetchFailures : LoadFail(f)
    \/ \E p \in Paths : HandleFileClick(p)
    \/ \E p \in Paths : FileSucceed(p)
    \/ \E p \in Paths, f \in FetchFailures : FileFail(p, f)

----------------------------------------------------------------------------
Next ==
    \/ \E m \in Messages : HandleSendMessage(m)
    \/ \E r \in creates : CreateFetched(r)
    \/ \E r \in creates : CreateSucceed(r)
    \/ \E r \in creates, f \in FetchFailures : CreateFail(r, f)
    \/ Cancel
    \/ StopBtnClick
    \/ \E sid \in SessionIds : StopSucceed(sid)
    \/ \E sid \in SessionIds, f \in FetchFailures : StopFail(sid, f)
    \/ \E e \in Events : WsDeliver(e)
    \/ WsClose
    \/ Background

Spec == Init /\ [][Next]_vars

----------------------------------------------------------------------------
\* The session lifecycle under the assumptions that every create-session
\* request is answered and that an open streaming channel delivers an event
\* with a terminal status; the channel is not closed from outside, and no
\* stop is ever required to happen.

\* some step of an outstanding create-session request
CreateResolves ==
    \E r \in creates :
        \/ CreateFetched(r)
        \/ CreateSucceed(r)
        \/ \E f \in FetchFailures : CreateFail(r, f)

\* the events that carry at most a status: what else an event carries has
\* no effect on isProcessing
StatusEvents ==
    {e \in Events : e.result = "none" /\ e.thinking_steps = <<>>}

\* the channel delivers an event whose status is completed, error or stopped
TerminalDelivered ==
    \E e \in StatusEvents :
        /\ e.status \in {"completed", "error", "stopped"}
        /\ WsDeliver(e)

NextLive ==
    \/ \E m \in Messages : HandleSendMessage(m)
    \/ CreateResolves
    \/ Cancel
    \/ StopBtnClick
    \/ \E sid \in SessionIds : StopSucceed(sid)
    \/ \E sid \in SessionIds, f \in FetchFailures : StopFail(sid, f)
    \/ \E e \in StatusEvents : WsDeliver(e)
    \/ Background

SpecLive ==
    /\ Init
    /\ [][NextLive]_vars
    /\ WF_vars(CreateResolves)
    /\ WF_vars(TerminalDelivered)

----------------------------------------------------------------------------
\* Event dispatch on its own: onEvent(e) called directly, for every event
\* and any number of times, on a controller whose first submission has been
\* answered.
InitDispatch ==
    /\ sessionId = 1
    /\ isProcessing = TRUE
    /\ sendDisabled = TRUE
    /\ stopDisabled = FALSE
    /\ statusText = "processing_request"
    /\ creates = {}
    /\ stops = EmptyBag
    /\ submitted = 1
    /\ wsChannel = 1
    /\ pending = EmptyBag
    /\ lastOp = Op("createOk", 1, NoEvent)
    /\ calls = SuccessCalls("hello", 1)

OnEvent(e) ==
    /\ Refreshes(e) => BagCardinality(pending) < MaxTimers
    /\ HandleWebSocketMessage(e)
    /\ lastOp' = [Op("handleWebSocketMessage", NULL, e) EXCEPT
                     !.again = (lastOp.op = "handleWebSocketMessage" /\ lastOp.ev = e)]
    /\ UNCHANGED wsChannel

NextDispatch ==
    \/ \E e \in DispatchEvents : OnEvent(e)
    \/ TimerFire
    \/ LoadSucceed
    \/ \E f \in FetchFailures : LoadFail(f)

SpecDispatch == InitDispatch /\ [][NextDispatch]_vars

\* the event loop runs the callback of every timer that has expired
SpecDispatchFair == SpecDispatch /\ WF_vars(TimerFire)

----------------------------------------------------------------------------
\* Properties

\* the part of the state a no-op leaves alone: everything but the record of
\* the step itself
effects == <<ctl, creates, stops, submitted, wsChannel, pending>>

\* the arguments of the addAIMessage calls in a call sequence, in order
RECURSIVE AIMessages(_)
AIMessages(cs) ==
    IF cs = <<>> THEN <<>>
    ELSE (IF Head(cs).call = "addAIMessage" THEN <<Head(cs).arg>> ELSE <<>>)
         \o AIMessages(Tail(cs))

OneSystemMessage(cs) == Len(cs) = 1 /\ cs[1].call = "addSystemMessage"

\* C1, as stated: in every reachable state, Active implies a session id.
C1_ActiveImpliesSession == isProcessing => sessionId # NULL

\* C1, amended: in every reachable state in which ProcessingState is Active
\* and no create-session request of a submit() is outstanding, the session
\* id is not null.
C1_ActiveSettledImpliesSession ==
    (isProcessing /\ creates = {}) => sessionId # NULL

C1_Witness ==
    /\ lastOp.op = "createOk"
    /\ isProcessing
    /\ creates = {}
    /\ sessionId = lastOp.sid

\* C2: at most one create-session request issued by submit() is outstanding
\* at any time.
C2_OneCreateOutstanding == Cardinality(creates) <= 1

\* C3: when submit() finishes handling a successful create-session response
\* with identifier s, ProcessingState is Active and the session id is s.
C3_SubmitSuccessIsActive ==
    [][lastOp'.op = "createOk" => (isProcessing' /\ sessionId' = lastOp'.sid)]_vars

\* C4: submit() called while ProcessingState is Active issues no request,
\* makes no collaborator call and changes neither ProcessingState, the
\* session id, the buttons nor the status indicator.
C4_SubmitWhileActiveIsNoop ==
    [][(lastOp'.op = "handleSendMessage" /\ isProcessing)
          => (UNCHANGED effects /\ calls' = <<>>)]_vars

\* an ignored submit(): a request just issued would still be outstanding
C4_Witness ==
    /\ lastOp.op = "handleSendMessage"
    /\ isProcessing
    /\ creates = {}
    /\ sessionId # NULL

\* C5, as stated: Idle -> Active only by a successful submit, Active -> Idle
\* only by a terminal stream event or a successful cancellation.
C5_TransitionsAsStated ==
    [][/\ (~isProcessing /\ isProcessing') => lastOp'.op = "createOk"
       /\ (isProcessing /\ ~isProcessing') =>
             \/ lastOp'.op = "stopOk"
             \/ /\ lastOp'.op = "handleWebSocketMessage"
                /\ lastOp'.ev.status \in {"completed", "error", "stopped"}]_vars

\* C5, amended: ProcessingState changes from Idle to Active only on entry of
\* a submit() that passes the guard (before its request is answered), and
\* from Active to Idle only on a terminal stream event, a successful
\* cancellation or a failed create-session call.
C5_Transitions ==
    [][/\ (~isProcessing /\ isProcessing') =>
             /\ lastOp'.op = "handleSendMessage"
             /\ submitted' = submitted + 1
       /\ (isProcessing /\ ~isProcessing') =>
             \/ lastOp'.op = "stopOk"
             \/ lastOp'.op = "createFail"
             \/ /\ lastOp'.op = "handleWebSocketMessage"
                /\ lastOp'.ev.status \in {"completed", "error", "stopped"}]_vars

\* a later submit() was reverted by its failed create-session call
C5_Witness ==
    /\ lastOp.op = "createFail"
    /\ ~isProcessing
    /\ sessionId # NULL

\* C6: a failed create-session call ends its submit() Idle, with send
\* enabled, stop disabled and the status cleared, with exactly one system
\* message and no other collaborator call, the session id and the channel
\* untouched and no new request.
C6_SubmitFailure ==
    [][lastOp'.op = "createFail" =>
          /\ ~isProcessing' /\ ~sendDisabled' /\ stopDisabled' /\ statusText' = ""
          /\ OneSystemMessage(calls')
          /\ sessionId' = sessionId
          /\ wsChannel' = wsChannel
          /\ submitted' = submitted
          /\ creates' = {c \in creates : c.n # lastOp'.sid}
          /\ stops' = stops]_vars

C6_Witness ==
    /\ lastOp.op = "createFail"
    /\ calls = <<Call("addSystemMessage", ErrorOccurred(ApiError(500)))>>
    /\ ~isProcessing /\ ~sendDisabled /\ stopDisabled /\ statusText = ""

\* C7: after an event with status completed, error or stopped, whatever else
\* it carries and whatever the state before, ProcessingState is Idle, send is
\* enabled, stop is disabled and the status indicator is cleared.
C7_TerminalEventIdles ==
    [][(/\ lastOp'.op = "handleWebSocketMessage"
        /\ lastOp'.ev.status \in {"completed", "error", "stopped"})
          => (~isProcessing' /\ ~sendDisabled' /\ stopDisabled' /\ statusText' = "")]_vars

C7_Witness ==
    /\ lastOp.op = "handleWebSocketMessage"
    /\ lastOp.ev.status = "stopped"
    /\ lastOp.ev.system_logs # <<>>
    /\ ~isProcessing /\ ~sendDisabled /\ stopDisabled /\ statusText = ""

\* C8, as stated: the result is forwarded as an AI message when the status is
\* completed and a result is present (read as: present and not empty), and
\* for no other event.
C8_ResultOnlyWhenCompleted ==
    [][lastOp'.op = "handleWebSocketMessage" =>
          AIMessages(calls') =
             IF /\ lastOp'.ev.status = "completed"
                /\ lastOp'.ev.result \notin {"none", ""}
             THEN <<lastOp'.ev.result>> ELSE <<>>]_vars

\* C8, amended: onEvent forwards event.result as one AI message when the
\* status is completed, error or stopped and the result is present and not
\* empty, and adds no AI message for any other event.
C8_ResultWhenTerminal ==
    [][lastOp'.op = "handleWebSocketMessage" =>
          AIMessages(calls') =
             IF /\ lastOp'.ev.status \in {"completed", "error", "stopped"}
                /\ lastOp'.ev.result \notin {"none", ""}
             THEN <<lastOp'.ev.result>> ELSE <<>>]_vars

C8_Witness ==
    /\ lastOp.op = "handleWebSocketMessage"
    /\ lastOp.ev.status = "error"
    /\ lastOp.ev.result = "done"
    /\ AIMessages(calls) = <<"done">>

\* C9: cancel() without a session issues no request, makes no call and
\* changes nothing; with a session, the one request it issues carries the
\* session id stored when cancel() is invoked.
C9_CancelGuardAndTarget ==
    [][lastOp'.op = "stopProcessing" =>
          /\ calls' = <<>>
          /\ UNCHANGED <<ctl, creates, submitted, wsChannel, pending>>
          /\ IF sessionId = NULL
             THEN stops' = stops
             ELSE stops' = stops (+) SetToBag({sessionId})]_vars

\* cancel() aimed at the stored session while a later submit() is unresolved
C9_Witness ==
    /\ lastOp.op = "stopProcessing"
    /\ sessionId # NULL
    /\ BagIn(sessionId, stops)
    /\ \E c \in creates : c.n > sessionId

\* C10: a failed stop request adds exactly one system message and leaves
\* ProcessingState, the session id, the buttons and the status indicator as
\* they were.
C10_StopFailure ==
    [][lastOp'.op = "stopFail" =>
          /\ OneSystemMessage(calls')
          /\ UNCHANGED <<ctl, creates, submitted, wsChannel, pending>>]_vars

C10_Witness ==
    /\ lastOp.op = "stopFail"
    /\ isProcessing
    /\ ~stopDisabled
    /\ OneSystemMessage(calls)

\* the names of the calls in a call sequence, in order
CallNames(cs) == [i \in 1..Len(cs) |-> cs[i].call]

\* C11: a successful stop request appends one 'stopped' system message, shows
\* the 'stopped' label, enables send, disables stop and sets ProcessingState
\* to Idle; it neither opens nor closes the streaming channel and leaves the
\* session id alone.
C11_StopSuccess ==
    [][lastOp'.op = "stopOk" =>
          /\ calls' = <<Call("addSystemMessage", "processing_stopped")>>
          /\ statusText' = "processing_stopped"
          /\ ~sendDisabled' /\ stopDisabled' /\ ~isProcessing'
          /\ wsChannel' = wsChannel
          /\ sessionId' = sessionId]_vars

\* a session stopped while its channel is still open
C11_Witness ==
    /\ lastOp.op = "stopOk"
    /\ wsChannel = lastOp.sid
    /\ sessionId = lastOp.sid
    /\ statusText = "processing_stopped"
    /\ ~isProcessing

\* C12: on a successful create-session response with identifier s, one step
\* of submit() stores s, adds the submitted text as a user message, opens the
\* channel for s and resets the thinking timeline, in this order; the channel
\* is opened by no other step and for no other identifier.
C12_SuccessSequence ==
    [][/\ lastOp'.op = "createOk" =>
             \E c \in creates :
                /\ c.n = lastOp'.sid
                /\ sessionId' = c.n
                /\ CallNames(calls') = <<"addUserMessage", "connect", "clearThinking">>
                /\ calls'[1].arg = c.msg
                /\ calls'[2].arg = c.n
                /\ wsChannel' = c.n
       /\ (wsChannel' # wsChannel /\ wsChannel' # NULL) =>
             (lastOp'.op = "createOk" /\ wsChannel' = lastOp'.sid)
       /\ "connect" \in {calls'[i].call : i \in 1..Len(calls')} =>
             lastOp'.op = "createOk"]_vars

\* Scenario A, for a second submission answered while the first is stored
C12_Witness ==
    /\ lastOp.op = "createOk"
    /\ lastOp.sid = 2
    /\ sessionId = 2
    /\ wsChannel = 2
    /\ CallNames(calls) = <<"addUserMessage", "connect", "clearThinking">>
    /\ calls[1].arg = "hello"

\* the arguments of the addThinkingSteps calls in a call sequence, in order
RECURSIVE TimelineCalls(_)
TimelineCalls(cs) ==
    IF cs = <<>> THEN <<>>
    ELSE (IF Head(cs).call = "addThinkingSteps" THEN <<Head(cs).arg>> ELSE <<>>)
         \o TimelineCalls(Tail(cs))

\* a log line as the timeline is to receive it
AsLogStep(line) ==
    [message |-> line, type |-> "system_log", details |-> "null", timestamp |-> "now"]

\* C13: the thinking-timeline calls of onEvent are one call with
\* thinking_steps unchanged if it is not empty, then one call with the mapped
\* system_logs if it is not empty, and nothing else, whatever status, result,
\* terminal_output or chat_logs the event carries.
C13_TimelineCalls ==
    [][lastOp'.op = "handleWebSocketMessage" =>
          LET e == lastOp'.ev
              tl == TimelineCalls(calls')
              hasSteps == e.thinking_steps # <<>>
              hasLogs == e.system_logs # <<>>
          IN /\ Len(tl) = (IF hasSteps THEN 1 ELSE 0) + (IF hasLogs THEN 1 ELSE 0)
             /\ hasSteps => tl[1] = e.thinking_steps
             /\ hasLogs => /\ Len(tl[Len(tl)]) = Len(e.system_logs)
                           /\ \A i \in 1..Len(e.system_logs) :
                                 tl[Len(tl)][i].message = e.system_logs[i]]_vars

\* an event with a terminal status, a result and both payloads
C13_Witness ==
    /\ lastOp.op = "handleWebSocketMessage"
    /\ lastOp.ev.status = "error"
    /\ lastOp.ev.terminal_output # <<>>
    /\ lastOp.ev.thinking_steps # <<>>
    /\ lastOp.ev.system_logs = <<"b", "a">>
    /\ Len(TimelineCalls(calls)) = 2

\* C14: for a non-empty system_logs L, onEvent makes exactly one timeline
\* call of the length of L whose i-th step has message L[i], type
\* "system_log" and details null.
C14_LogSteps ==
    [][(lastOp'.op = "handleWebSocketMessage" /\ lastOp'.ev.system_logs # <<>>) =>
          LET L == lastOp'.ev.system_logs
              logCalls == {i \in 1..Len(calls') :
                              /\ calls'[i].call = "addThinkingSteps"
                              /\ calls'[i].arg # lastOp'.ev.thinking_steps}
          IN /\ Cardinality(logCalls) = 1
             /\ \A i \in logCalls :
                   calls'[i].arg = [k \in 1..Len(L) |-> AsLogStep(L[k])]]_vars

\* Scenario D
C14_Witness ==
    /\ lastOp.op = "handleWebSocketMessage"
    /\ lastOp.ev.system_logs = <<"a", "b">>
    /\ lastOp.ev.thinking_steps = <<>>
    /\ TimelineCalls(calls) = << <<AsLogStep("a"), AsLogStep("b")>> >>

RECURSIVE Scheduled(_)
Scheduled(cs) ==
    IF cs = <<>> THEN 0
    ELSE (IF Head(cs).call = "setTimeout" THEN 1 ELSE 0) + Scheduled(Tail(cs))

\* C15: an event with status completed schedules exactly one refresh and
\* does not itself call loadWorkspaceFiles; an event with another status or
\* none schedules nothing; a scheduled refresh ends only by a later step that
\* calls loadWorkspaceFiles, and a scheduled refresh is followed by such a
\* step.
C15_RefreshAfterCompleted ==
    /\ [][/\ lastOp'.op = "handleWebSocketMessage" =>
                IF lastOp'.ev.status = "completed"
                THEN /\ Scheduled(calls') = 1
                     /\ pending' = pending (+) SetToBag({Timer})
                ELSE /\ Scheduled(calls') = 0
                     /\ pending' = pending
          /\ CopiesIn(Timer, pending') < CopiesIn(Timer, pending) =>
                /\ lastOp'.op = "loadWorkspaceFiles"
                /\ CopiesIn(Timer, pending') = CopiesIn(Timer, pending) - 1
                /\ CopiesIn(FilesFetch, pending') = CopiesIn(FilesFetch, pending) + 1]_vars
    /\ BagIn(Timer, pending) ~> (lastOp.op = "loadWorkspaceFiles")

\* the refresh of a completed session has fired and its fetch is under way
C15_Witness ==
    /\ lastOp.op = "loadWorkspaceFiles"
    /\ BagIn(FilesFetch, pending)
    /\ ~BagIn(Timer, pending)
    /\ ~isProcessing

\* C16: no step of loadWorkspaceFiles() or openFile() changes ProcessingState
\* or the session id; a failed loadWorkspaceFiles() makes no collaborator
\* call and issues no request; a failed openFile() adds exactly one system
\* message.
C16_FileOperations ==
    [][/\ lastOp'.op \in {"loadWorkspaceFiles", "loadOk", "loadFail",
                          "handleFileClick", "fileOk", "fileFail"} =>
             /\ isProcessing' = isProcessing
             /\ sessionId' = sessionId
             /\ UNCHANGED <<creates, stops, wsChannel>>
       /\ lastOp'.op = "loadFail" =>
             /\ calls' = <<>>
             /\ pending' = pending (-) SetToBag({FilesFetch})
       /\ lastOp'.op = "fileFail" =>
             /\ OneSystemMessage(calls')
             /\ BagCardinality(pending') = BagCardinality(pending) - 1]_vars

\* a file fetch failed while a session is being processed
C16_Witness ==
    /\ lastOp.op = "fileFail"
    /\ isProcessing
    /\ sessionId # NULL
    /\ OneSystemMessage(calls)

\* C18: once the first submit() has started, between handlers #send-btn is
\* disabled exactly when isProcessing, #stop-btn is enabled exactly when
\* isProcessing, and #status-indicator shows the processing label exactly
\* when isProcessing.
C18_AffordancesAgree ==
    submitted > 0 =>
        /\ sendDisabled <=> isProcessing
        /\ ~stopDisabled <=> isProcessing
        /\ (statusText = "processing_request") <=> isProcessing

\* a later submission was made Idle by the stop of an earlier session while
\* its create request is outstanding: the affordances followed
C18_Witness ==
    /\ lastOp.op = "stopOk"
    /\ creates # {}
    /\ ~isProcessing
    /\ ~sendDisabled
    /\ stopDisabled
    /\ statusText = "processing_stopped"

\* C19: a stop response for session s that completes after a later submit()
\* has begun (a create request with a higher ordinal than s was issued and
\* the controller is processing it) neither clears isProcessing nor
\* re-enables #send-btn.
C19_StaleStopKeepsActive ==
    [][(/\ lastOp'.op = "stopOk"
        /\ submitted > lastOp'.sid
        /\ isProcessing)
       => (isProcessing' /\ sendDisabled')]_vars

\* C20: if every create-session request is answered and an open channel
\* delivers a terminal event, every state with isProcessing is followed by a
\* state without it, in which handleSendMessage passes its guard again; no
\* stop request is needed for that.
C20_ActiveLeadsToIdle == isProcessing ~> ~isProcessing

\* a submission ended by a terminal event with no stop request issued for it
C20_Witness ==
    /\ lastOp.op = "handleWebSocketMessage"
    /\ lastOp.ev.status \in {"completed", "error", "stopped"}
    /\ ~isProcessing
    /\ ~Busy(isProcessing)
    /\ submitted = MaxSubmits
    /\ creates = {}
    /\ stops = EmptyBag

====
